---- MODULE Spec2Model ----
(***************************************************************************)
(* Option exercise classes of ql/exercise.hpp: Exercise and its derived    *)
(* classes EarlyExercise, AmericanExercise, BermudanExercise,              *)
(* EuropeanExercise and RebatedExercise.                                   *)
(*                                                                         *)
(* A client builds an exercise `ex`, optionally a rebated exercise `rs`    *)
(* from it, and calls the inspectors of either object.  `last` is the      *)
(* most recent call with its arguments and its outcome; `exCtor` and       *)
(* `rsCtor` remember the constructor call each live object came from.      *)
(*                                                                         *)
(* Dates are serial day numbers, rebates are integer amounts, a calendar   *)
(* is the set of its non-business days.  Vector indices are 0-based as in  *)
(* the C++ code; TLA+ sequences are 1-based, hence the `index + 1`.        *)
(***************************************************************************)
EXTENDS Integers, Sequences, FiniteSets, TLC

VARIABLES ex, rs, exCtor, rsCtor, last

vars == <<ex, rs, exCtor, rsCtor, last>>

----------------------------------------------------------------------------
(* Bounds of the model *)

MaxDate == 2
MaxLen == 2
MaxSettle == 2

Dates == 0..MaxDate
Indices == 0..(MaxLen + 1)
SettleDays == 0..MaxSettle
Rebates == {-5, 10}
DateSeqs == UNION {[1..n -> Dates] : n \in 0..MaxLen}
RebateSeqs == UNION {[1..n -> Rebates] : n \in 0..MaxLen}

----------------------------------------------------------------------------
(* Exercise::Type *)

American == "American"
Bermudan == "Bermudan"
European == "European"

----------------------------------------------------------------------------
(* Outcomes of a call *)

Ok(v) == [status |-> "ok", value |-> v]

\* QL_REQUIRE failed: the requirement that failed and the numbers its
\* message prints.
Error(kind, msg) == [status |-> "error", kind |-> kind, msg |-> msg]

\* the process died (out-of-bounds access trapped by the platform)
Crash == [status |-> "crash"]

\* What an access outside a vector's storage can produce: any Date-typed
\* bit pattern, or a trap.
Outside == {Ok(g) : g \in Dates} \cup {Crash}

----------------------------------------------------------------------------
(* Size arithmetic.  Size is an unsigned 64-bit integer; a value is kept   *)
(* as SizeLimbs limbs of LimbBits bits, least significant first, so that   *)
(* a subtraction wraps exactly as the machine's does.                      *)

LimbBits == 16
SizeLimbs == 4
LimbBase == 2 ^ LimbBits

ToSize(n) == [k \in 1..SizeLimbs |-> IF k = 1 THEN n % LimbBase ELSE 0]

RECURSIVE Borrow(_, _, _)
Borrow(a, b, k) ==
    IF k = 1 THEN 0
    ELSE IF a[k-1] - b[k-1] - Borrow(a, b, k-1) < 0 THEN 1 ELSE 0

SizeSub(a, b) ==
    [k \in 1..SizeLimbs |-> (a[k] - b[k] - Borrow(a, b, k)) % LimbBase]

SizeMax == [k \in 1..SizeLimbs |-> LimbBase - 1]

----------------------------------------------------------------------------
(* Calendar and business-day conventions *)

Following == "Following"
Unadjusted == "Unadjusted"
Conventions == {Following, Unadjusted}

NullCalendar == {}
Calendars == {NullCalendar, {1}, {1, 2}}

isBusinessDay(calendar, d) == d \notin calendar

RECURSIVE adjust(_, _, _)
adjust(calendar, d, convention) ==
    IF convention = Unadjusted \/ isBusinessDay(calendar, d) THEN d
    ELSE adjust(calendar, d + 1, convention)

\* Calendar::advance(d, n, Days, convention)
advance(calendar, d, n, convention) == adjust(calendar, d + n, convention)

----------------------------------------------------------------------------
(* Objects *)

NoObject == [class |-> "none"]

\* Exercise::Exercise(Type)
Exercise(type) == [type_ |-> type, dates_ |-> <<>>]

\* Mutant: the type is not handed on to the base class.
EarlyExercise_TypeDropped(type, payoffAtExpiry) ==
    Exercise(American) @@ [payoffAtExpiry_ |-> payoffAtExpiry]

\* EarlyExercise::EarlyExercise(Type, bool payoffAtExpiry = false)
EarlyExercise(type, payoffAtExpiry) ==
    Exercise(type) @@ [payoffAtExpiry_ |-> payoffAtExpiry]

DefaultPayoffAtExpiry == FALSE

\* Date::minDate(), the earliest date: "no lower bound"
sentinel == CHOOSE d \in Dates : \A e \in Dates : d <= e

----------------------------------------------------------------------------
(* Constructors of the concrete classes *)

\* EuropeanExercise::EuropeanExercise(const Date&)
EuropeanExercise(date) ==
    [class |-> "EuropeanExercise"]
        @@ [Exercise(European) EXCEPT !.dates_ = <<date>>]

\* AmericanExercise::AmericanExercise(earliestDate, latestDate, payoffAtExpiry)
AmericanExercise(earliestDate, latestDate, payoffAtExpiry) ==
    [class |-> "AmericanExercise"]
        @@ [EarlyExercise(American, payoffAtExpiry)
                EXCEPT !.dates_ = <<earliestDate, latestDate>>]

\* AmericanExercise::AmericanExercise(latestDate, payoffAtExpiry)
AmericanExerciseLatest(latestDate, payoffAtExpiry) ==
    [class |-> "AmericanExercise"]
        @@ [EarlyExercise(American, payoffAtExpiry)
                EXCEPT !.dates_ = <<sentinel, latestDate>>]

\* BermudanExercise::BermudanExercise(dates, payoffAtExpiry)
BermudanExercise(ds, payoffAtExpiry) ==
    [class |-> "BermudanExercise"]
        @@ [EarlyExercise(Bermudan, payoffAtExpiry) EXCEPT !.dates_ = ds]

\* Default arguments of the RebatedExercise constructors
DefaultRebate == 0
DefaultRebateSettlementDays == 0
DefaultRebatePaymentCalendar == NullCalendar
DefaultRebatePaymentConvention == Following

\* The members a RebatedExercise adds to the Exercise it copies.
RebatedMembers(exercise, rebates, rebateSettlementDays, rebatePaymentCalendar, rebatePaymentConvention) ==
    [class |-> "RebatedExercise",
     type_ |-> exercise.type_,
     dates_ |-> exercise.dates_,
     rebates_ |-> rebates,
     rebateSettlementDays_ |-> rebateSettlementDays,
     rebatePaymentCalendar_ |-> rebatePaymentCalendar,
     rebatePaymentConvention_ |-> rebatePaymentConvention]

\* RebatedExercise::RebatedExercise(const Exercise&, Real rebate, ...):
\* the one rebate, once per exercise date
RebatedExercise(exercise, rebate, rebateSettlementDays, rebatePaymentCalendar, rebatePaymentConvention) ==
    Ok(RebatedMembers(exercise,
                      [k \in 1..Len(exercise.dates_) |-> rebate],
                      rebateSettlementDays, rebatePaymentCalendar,
                      rebatePaymentConvention))

\* RebatedExercise::RebatedExercise(const Exercise&, const vector<Real>&, ...)
RebatedExerciseVector(exercise, rebates, rebateSettlementDays, rebatePaymentCalendar, rebatePaymentConvention) ==
    IF Len(rebates) # Len(exercise.dates_)
    THEN Error("SizeMismatch",
               [rebates |-> Len(rebates), dates |-> Len(exercise.dates_)])
    ELSE Ok(RebatedMembers(exercise, rebates, rebateSettlementDays,
                           rebatePaymentCalendar, rebatePaymentConvention))

----------------------------------------------------------------------------
(* std::vector element access without a bounds check.  Each yields the    *)
(* set of outcomes the access can have.                                    *)

\* v[index]
at(v, index) == IF index < Len(v) THEN {Ok(v[index + 1])} ELSE Outside

\* v.back()
back(v) == IF Len(v) > 0 THEN {Ok(v[Len(v)])} ELSE Outside

----------------------------------------------------------------------------
(* Inspectors *)

\* Exercise::type
type(obj) == obj.type_

\* Mutant: the view stops one element short.
dates_OneShort(obj) == SubSeq(obj.dates_, 1, Len(obj.dates_) - 1)

\* Exercise::dates
dates(obj) == obj.dates_

\* Mutant: front() for back().
lastDate_Front(obj) == at(obj.dates_, 0)

\* Exercise::lastDate
lastDate(obj) == back(obj.dates_)

\* Mutant: the bound is off by one.
date_OffByOne(obj, index) ==
    IF index + 1 < Len(obj.dates_)
    THEN Ok(obj.dates_[index + 1])
    ELSE Error("IndexOutOfRange",
               [index |-> index, upper |-> ToSize(Len(obj.dates_))])

\* Exercise::date
date(obj, index) ==
    IF index < Len(obj.dates_)
    THEN Ok(obj.dates_[index + 1])
    ELSE Error("IndexOutOfRange",
               [index |-> index, upper |-> ToSize(Len(obj.dates_))])

\* EarlyExercise::payoffAtExpiry
payoffAtExpiry(obj) == obj.payoffAtExpiry_

\* RebatedExercise::rebates
rebates(obj) == obj.rebates_

\* Mutant: the bound is off by one.
rebate_OffByOne(obj, index) ==
    IF index + 1 < Len(obj.rebates_)
    THEN Ok(obj.rebates_[index + 1])
    ELSE Error("IndexOutOfRange",
               [index |-> index,
                upper |-> SizeSub(ToSize(Len(obj.rebates_)), ToSize(1))])

\* Mutant: the message prints the size, as Exercise::date does.
rebate_PrintsSize(obj, index) ==
    IF index < Len(obj.rebates_)
    THEN Ok(obj.rebates_[index + 1])
    ELSE Error("IndexOutOfRange",
               [index |-> index, upper |-> ToSize(Len(obj.rebates_))])

\* RebatedExercise::rebate
rebate(obj, index) ==
    IF index < Len(obj.rebates_)
    THEN Ok(obj.rebates_[index + 1])
    ELSE Error("IndexOutOfRange",
               [index |-> index,
                upper |-> SizeSub(ToSize(Len(obj.rebates_)), ToSize(1))])

\* Mutant: only the European style passes the requirement.
rebatePaymentDate_EuropeanOnly(obj, index) ==
    IF ~(obj.type_ = European)
    THEN {Error("UnsupportedOperation", <<>>)}
    ELSE {IF d.status = "ok"
          THEN Ok(advance(obj.rebatePaymentCalendar_, d.value,
                          obj.rebateSettlementDays_,
                          obj.rebatePaymentConvention_))
          ELSE d : d \in at(obj.dates_, index)}

\* Mutant: the exercise date is adjusted but not advanced.
rebatePaymentDate_NotAdvanced(obj, index) ==
    IF ~(obj.type_ = European \/ obj.type_ = Bermudan)
    THEN {Error("UnsupportedOperation", <<>>)}
    ELSE {IF d.status = "ok"
          THEN Ok(advance(obj.rebatePaymentCalendar_, d.value, 0,
                          obj.rebatePaymentConvention_))
          ELSE d : d \in at(obj.dates_, index)}

\* RebatedExercise::rebatePaymentDate
rebatePaymentDate(obj, index) ==
    IF ~(obj.type_ = European \/ obj.type_ = Bermudan)
    THEN {Error("UnsupportedOperation", <<>>)}
    ELSE {IF d.status = "ok"
          THEN Ok(advance(obj.rebatePaymentCalendar_, d.value,
                          obj.rebateSettlementDays_,
                          obj.rebatePaymentConvention_))
          ELSE d : d \in at(obj.dates_, index)}

----------------------------------------------------------------------------
(* The client *)

NoCall == [op |-> "none"]

Call(op, target, args, result) ==
    [op |-> op, target |-> target, args |-> args, result |-> result]

Constructed == Ok("constructed")

Targets == {"ex", "rs"}

\* the object a call is made on
Obj(t) == IF t = "ex" THEN ex ELSE rs

Live(t) == Obj(t) # NoObject

\* The client is sequential: it makes a call, looks at the outcome, and
\* only then goes on to its next statement.
Idle == last = NoCall

Init ==
    /\ ex = NoObject
    /\ rs = NoObject
    /\ exCtor = NoCall
    /\ rsCtor = NoCall
    /\ last = NoCall

\* The client builds one exercise at a time.
CanBuild == Idle /\ ~Live("ex")

Build(obj, op, args) ==
    /\ ex' = obj
    /\ rs' = NoObject
    /\ exCtor' = [op |-> op, args |-> args]
    /\ rsCtor' = NoCall
    /\ last' = Call(op, "ex", args, Constructed)

\* The trailing arguments a caller leaves out take their defaults: the
\* k-th optional argument ranges over `values` when at least k are given.
Given(given, k, values, default) == IF given >= k THEN values ELSE {default}

NewEuropean ==
    /\ CanBuild
    /\ \E d \in Dates :
        Build(EuropeanExercise(d), "EuropeanExercise", [date |-> d])

NewAmerican ==
    /\ CanBuild
    /\ \E d1 \in Dates, d2 \in Dates, given \in 0..1 :
        \E p \in Given(given, 1, BOOLEAN, DefaultPayoffAtExpiry) :
        Build(AmericanExercise(d1, d2, p), "AmericanExercise",
              [earliestDate |-> d1, latestDate |-> d2, payoffAtExpiry |-> p])

NewAmericanLatest ==
    /\ CanBuild
    /\ \E d2 \in Dates, given \in 0..1 :
        \E p \in Given(given, 1, BOOLEAN, DefaultPayoffAtExpiry) :
        Build(AmericanExerciseLatest(d2, p), "AmericanExerciseLatest",
              [latestDate |-> d2, payoffAtExpiry |-> p])

NewBermudan ==
    /\ CanBuild
    /\ \E ds \in DateSeqs, given \in 0..1 :
        \E p \in Given(given, 1, BOOLEAN, DefaultPayoffAtExpiry) :
        Build(BermudanExercise(ds, p), "BermudanExercise",
              [dates |-> ds, payoffAtExpiry |-> p])

\* The client wraps its exercise once.
CanBuildRebated == Idle /\ Live("ex") /\ ~Live("rs")

\* The outcome of a RebatedExercise constructor: the object, or nothing
\* when the constructor threw.
BuildRebated(outcome, op, args) ==
    /\ rs' = IF outcome.status = "ok" THEN outcome.value ELSE NoObject
    /\ rsCtor' = IF outcome.status = "ok"
                 THEN [op |-> op, args |-> args] ELSE NoCall
    /\ last' = Call(op, "rs", args,
                    IF outcome.status = "ok" THEN Constructed ELSE outcome)
    /\ UNCHANGED <<ex, exCtor>>

NewRebated ==
    /\ CanBuildRebated
    /\ \E given \in 0..4 :
        \E r \in Given(given, 1, Rebates, DefaultRebate),
           n \in Given(given, 2, SettleDays, DefaultRebateSettlementDays),
           cal \in Given(given, 3, Calendars, DefaultRebatePaymentCalendar),
           conv \in Given(given, 4, Conventions, DefaultRebatePaymentConvention) :
            LET a == [rebate |-> r,
                      rebateSettlementDays |-> n,
                      rebatePaymentCalendar |-> cal,
                      rebatePaymentConvention |-> conv]
            IN  BuildRebated(RebatedExercise(ex, a.rebate, a.rebateSettlementDays,
                                             a.rebatePaymentCalendar,
                                             a.rebatePaymentConvention),
                             "RebatedExercise", a)

NewRebatedVector ==
    /\ CanBuildRebated
    /\ \E given \in 1..4, v \in RebateSeqs :
        \E n \in Given(given, 2, SettleDays, DefaultRebateSettlementDays),
           cal \in Given(given, 3, Calendars, DefaultRebatePaymentCalendar),
           conv \in Given(given, 4, Conventions, DefaultRebatePaymentConvention) :
            LET a == [rebates |-> v,
                      rebateSettlementDays |-> n,
                      rebatePaymentCalendar |-> cal,
                      rebatePaymentConvention |-> conv]
            IN  BuildRebated(RebatedExerciseVector(ex, a.rebates,
                                                   a.rebateSettlementDays,
                                                   a.rebatePaymentCalendar,
                                                   a.rebatePaymentConvention),
                             "RebatedExerciseVector", a)

\* Exercise::~Exercise: the client lets go of its objects.
Release ==
    /\ Idle
    /\ Live("ex")
    /\ ex' = NoObject
    /\ rs' = NoObject
    /\ exCtor' = NoCall
    /\ rsCtor' = NoCall
    /\ last' = NoCall

\* Mutant: an inspector that consumes the date it looked at.
Inspect_Writes(op, t, args, result) ==
    /\ last' = Call(op, t, args, result)
    /\ ex' = IF t = "ex" THEN [ex EXCEPT !.dates_ = SubSeq(@, 2, Len(@))]
             ELSE ex
    /\ rs' = IF t = "rs" THEN [rs EXCEPT !.dates_ = SubSeq(@, 2, Len(@))]
             ELSE rs
    /\ UNCHANGED <<exCtor, rsCtor>>

\* An inspector is a const member function: it writes nothing but its result.
Inspect(op, t, args, result) ==
    /\ last' = Call(op, t, args, result)
    /\ UNCHANGED <<ex, rs, exCtor, rsCtor>>

\* The call has returned (or thrown); the client goes on.
Return ==
    /\ ~Idle
    /\ last.result # Crash
    /\ last' = NoCall
    /\ UNCHANGED <<ex, rs, exCtor, rsCtor>>

CallType ==
    \E t \in Targets :
        /\ Idle /\ Live(t)
        /\ Inspect("type", t, <<>>, Ok(type(Obj(t))))

CallDate ==
    \E t \in Targets :
        /\ Idle /\ Live(t)
        /\ \E i \in Indices :
               Inspect("date", t, <<i>>, date(Obj(t), i))

CallDates ==
    \E t \in Targets :
        /\ Idle /\ Live(t)
        /\ Inspect("dates", t, <<>>, Ok(dates(Obj(t))))

CallLastDate ==
    \E t \in Targets :
        /\ Idle /\ Live(t)
        /\ \E r \in lastDate(Obj(t)) : Inspect("lastDate", t, <<>>, r)

CallPayoffAtExpiry ==
    /\ Idle
    /\ ex.class \in {"AmericanExercise", "BermudanExercise"}
    /\ Inspect("payoffAtExpiry", "ex", <<>>, Ok(payoffAtExpiry(ex)))

CallRebate ==
    /\ Idle /\ Live("rs")
    /\ \E i \in Indices :
        Inspect("rebate", "rs", <<i>>, rebate(rs, i))

CallRebates ==
    /\ Idle /\ Live("rs")
    /\ Inspect("rebates", "rs", <<>>, Ok(rebates(rs)))

CallRebatePaymentDate ==
    /\ Idle /\ Live("rs")
    /\ \E i \in Indices :
        \E r \in rebatePaymentDate(rs, i) :
            Inspect("rebatePaymentDate", "rs", <<i>>, r)

Next ==
    \/ NewEuropean
    \/ NewAmerican
    \/ NewAmericanLatest
    \/ NewBermudan
    \/ NewRebated
    \/ NewRebatedVector
    \/ Release
    \/ CallType
    \/ CallDate
    \/ CallDates
    \/ CallLastDate
    \/ CallPayoffAtExpiry
    \/ CallRebate
    \/ CallRebates
    \/ CallRebatePaymentDate
    \/ Return

Spec == Init /\ [][Next]_vars

----------------------------------------------------------------------------
(* Properties *)

Failed(r, kind) == r.status = "error" /\ r.kind = kind

\* the index of the call `last`
Index == last.args[1]

\* the styles for which a rebate payment date may be asked
Discrete == {European, Bermudan}

Max(v) == CHOOSE d \in {v[k] : k \in 1..Len(v)} : \A k \in 1..Len(v) : v[k] <= d

Ascending(v) == \A k \in 1..(Len(v) - 1) : v[k] <= v[k + 1]

StrictlyAscending(v) == \A k \in 1..(Len(v) - 1) : v[k] < v[k + 1]

\* C1: on every exercise object, date(i) returns dates()[i] when
\* i < dates().size(), and otherwise fails with IndexOutOfRange and returns
\* no date.
C1_DateAt ==
    last.op = "date" =>
        LET ds == dates(Obj(last.target))
        IN  IF Index < Len(ds)
            THEN last.result = Ok(ds[Index + 1])
            ELSE Failed(last.result, "IndexOutOfRange")

\* the second date of a Bermudan exercise given out of order was read
C1_Witness ==
    /\ last.op = "date"
    /\ type(Obj(last.target)) = Bermudan
    /\ Index = 1
    /\ ~Ascending(dates(Obj(last.target)))
    /\ last.result = Ok(dates(Obj(last.target))[2])

\* C2: on an American rebated exercise rebatePaymentDate(i) fails with
\* UnsupportedOperation for every index i, in range or not; on a European
\* or Bermudan one it never fails with UnsupportedOperation.
C2_AmericanIllegal ==
    last.op = "rebatePaymentDate" =>
        /\ type(rs) = American =>
               Failed(last.result, "UnsupportedOperation")
        /\ type(rs) \in Discrete =>
               ~Failed(last.result, "UnsupportedOperation")

\* an American rebated exercise was asked for a payment date past its dates
C2_Witness ==
    /\ last.op = "rebatePaymentDate"
    /\ type(rs) = American
    /\ Index >= Len(dates(rs))
    /\ Failed(last.result, "UnsupportedOperation")

\* C3: on a European or Bermudan rebated exercise built from e, for
\* i < e.dates().size(), rebatePaymentDate(i) is the calendar's advance of
\* e.date(i) by the settlement days, calendar and convention given to the
\* constructor; with a calendar without holidays that is e.date(i) plus
\* the settlement days, and with the default arguments it is e.date(i).
C3_PaymentDate ==
    (/\ last.op = "rebatePaymentDate"
     /\ type(rs) \in Discrete
     /\ Index < Len(dates(ex))) =>
        LET d == date(ex, Index).value
            a == rsCtor.args
        IN  /\ last.result =
                   Ok(advance(a.rebatePaymentCalendar, d,
                              a.rebateSettlementDays,
                              a.rebatePaymentConvention))
            /\ a.rebatePaymentCalendar = NullCalendar =>
                   last.result = Ok(d + a.rebateSettlementDays)
            /\ (/\ a.rebateSettlementDays = DefaultRebateSettlementDays
                /\ a.rebatePaymentCalendar = DefaultRebatePaymentCalendar
                /\ a.rebatePaymentConvention = DefaultRebatePaymentConvention)
                   => last.result = Ok(d)

\* a European exercise, two settlement days, no holidays: two days later
C3_Witness ==
    /\ last.op = "rebatePaymentDate"
    /\ type(rs) = European
    /\ rsCtor.args.rebateSettlementDays = 2
    /\ rsCtor.args.rebatePaymentCalendar = NullCalendar
    /\ rsCtor.args.rebatePaymentConvention = Following
    /\ last.result = Ok(exCtor.args.date + 2)

\* C4: every rebated exercise a constructor produced has as many rebates
\* as dates; the constructor taking a vector of another size than the
\* exercise's dates fails with SizeMismatch and produces no object.
C4_SizesAgree ==
    /\ Live("rs") => Len(rebates(rs)) = Len(dates(rs))
    /\ (/\ last.op = "RebatedExerciseVector"
        /\ Len(last.args.rebates) # Len(dates(ex))) =>
           /\ Failed(last.result, "SizeMismatch")
           /\ ~Live("rs")

\* a vector of two rebates was accepted for an American exercise
C4_Witness ==
    /\ last.op = "RebatedExerciseVector"
    /\ last.result = Constructed
    /\ type(rs) = American
    /\ Len(rebates(rs)) = 2

\* C5: the constructor taking one rebate r gives rebates() as many
\* elements as the exercise has dates, each equal to r, so that
\* rebate(i) = r for every i < dates().size().
C5_Broadcast ==
    rsCtor.op = "RebatedExercise" =>
        /\ Len(rebates(rs)) = Len(dates(ex))
        /\ \A k \in 1..Len(rebates(rs)) : rebates(rs)[k] = rsCtor.args.rebate
        /\ (last.op = "rebate" /\ Index < Len(dates(ex))) =>
               last.result = Ok(rsCtor.args.rebate)

\* the second rebate of an American exercise built with one rebate was read
C5_Witness ==
    /\ rsCtor.op = "RebatedExercise"
    /\ type(rs) = American
    /\ last.op = "rebate"
    /\ Index = 1
    /\ last.result = Ok(rsCtor.args.rebate)
    /\ rsCtor.args.rebate # DefaultRebate

\* what each constructor is to produce from its arguments
StatedType ==
    CASE exCtor.op = "EuropeanExercise" -> European
      [] exCtor.op = "AmericanExercise" -> American
      [] exCtor.op = "AmericanExerciseLatest" -> American
      [] exCtor.op = "BermudanExercise" -> Bermudan

StatedDates ==
    CASE exCtor.op = "EuropeanExercise" -> <<exCtor.args.date>>
      [] exCtor.op = "AmericanExercise" ->
             <<exCtor.args.earliestDate, exCtor.args.latestDate>>
      [] exCtor.op = "AmericanExerciseLatest" ->
             <<sentinel, exCtor.args.latestDate>>
      [] exCtor.op = "BermudanExercise" -> exCtor.args.dates

\* C6: EuropeanExercise(d) is European with dates [d]; AmericanExercise(d1,
\* d2) is American with dates [d1, d2]; AmericanExercise(d2) has dates
\* [sentinel, d2]; BermudanExercise(ds) is Bermudan with dates ds, element
\* for element in the order given, sorted or not.
C6_Constructors ==
    Live("ex") =>
        /\ type(ex) = StatedType
        /\ dates(ex) = StatedDates
        /\ (last.op = "type" /\ last.target = "ex") =>
               last.result = Ok(StatedType)
        /\ (last.op = "dates" /\ last.target = "ex") =>
               last.result = Ok(StatedDates)

\* a Bermudan exercise given two dates out of order shows them as given
C6_Witness ==
    /\ exCtor.op = "BermudanExercise"
    /\ Len(exCtor.args.dates) = 2
    /\ exCtor.args.dates[1] > exCtor.args.dates[2]
    /\ last.op = "dates"
    /\ last.target = "ex"
    /\ last.result = Ok(exCtor.args.dates)

\* the objects as their constructors made them
BuiltEx ==
    CASE exCtor.op = "EuropeanExercise" -> EuropeanExercise(exCtor.args.date)
      [] exCtor.op = "AmericanExercise" ->
             AmericanExercise(exCtor.args.earliestDate,
                              exCtor.args.latestDate,
                              exCtor.args.payoffAtExpiry)
      [] exCtor.op = "AmericanExerciseLatest" ->
             AmericanExerciseLatest(exCtor.args.latestDate,
                                    exCtor.args.payoffAtExpiry)
      [] exCtor.op = "BermudanExercise" ->
             BermudanExercise(exCtor.args.dates, exCtor.args.payoffAtExpiry)

BuiltRs ==
    LET a == rsCtor.args
    IN  IF rsCtor.op = "RebatedExercise"
        THEN RebatedExercise(BuiltEx, a.rebate, a.rebateSettlementDays,
                             a.rebatePaymentCalendar,
                             a.rebatePaymentConvention).value
        ELSE RebatedExerciseVector(BuiltEx, a.rebates, a.rebateSettlementDays,
                                   a.rebatePaymentCalendar,
                                   a.rebatePaymentConvention).value

C9_OutOfRange ==
    (/\ last.op = "rebatePaymentDate"
     /\ type(rs) \in Discrete
     /\ Index >= Len(dates(rs))) =>
        Failed(last.result, "IndexOutOfRange")

\* C10: rebate(i) returns rebates()[i] when i < rebates().size(), whatever
\* the exercise type; otherwise it fails with IndexOutOfRange and reports
\* the range 0...size-1, whose upper end, computed in Size, is the largest
\* Size when there are no rebates.
C10_RebateAt ==
    last.op = "rebate" =>
        LET v == rebates(rs)
        IN  IF Index < Len(v)
            THEN last.result = Ok(v[Index + 1])
            ELSE /\ Failed(last.result, "IndexOutOfRange")
                 /\ last.result.msg.index = Index
                 /\ last.result.msg.upper =
                        IF Len(v) = 0 THEN SizeMax ELSE ToSize(Len(v) - 1)

\* rebate(0) was asked of a rebated exercise without rebates
C10_Witness ==
    /\ last.op = "rebate"
    /\ Index = 0
    /\ rebates(rs) = <<>>
    /\ Failed(last.result, "IndexOutOfRange")
    /\ last.result.msg.upper = SizeMax

====
